---- MODULE Spec2Model ----
(***************************************************************************)
(* Model of the task-manager MCP server (src/main.rs).                     *)
(*                                                                         *)
(* main hands StreamableHttpService a factory closure                      *)
(* `|| Ok(TaskManager::new())`; the service calls the factory for every    *)
(* session it opens, so every session owns a TaskManager of its own.      *)
(* add_task is an async fn: it awaits the `tasks` mutex, then the         *)
(* `next_id` mutex, and then runs without any further await point.         *)
(* Invocations run on a multi-threaded runtime, so each statement of       *)
(* add_task is a step of its own here.                                     *)
(***************************************************************************)
EXTENDS Integers, Sequences, FiniteSets, TLC

\* ---- bounds ----
MaxCalls == 2
MaxSessions == 2

Calls == 1..MaxCalls
Sessions == 1..MaxSessions

\* the payloads the dispatcher may decode into an AddTaskRequest; both fields
\* are arbitrary strings, the empty string included
Requests == {[title |-> "Buy milk", description |-> "2% organic"],
             [title |-> "", description |-> ""]}

NoCall == 0
NoTask == [id |-> 0, title |-> "", description |-> "", completed |-> FALSE]
NoResult == [is_error |-> TRUE, content |-> <<>>]

VARIABLES
    tasks,        \* TaskManager.tasks of each session's registry: Vec<Task>
    next_id,      \* TaskManager.next_id of each session's registry
    tasks_lock,   \* holder of the tasks mutex of each registry (NoCall = free)
    next_id_lock, \* holder of the next_id mutex of each registry
    pc,           \* position of each invocation of add_task
    self,         \* the session (registry) an invocation runs on
    title,        \* AddTaskRequest.title of each invocation
    description,  \* AddTaskRequest.description of each invocation
    task,         \* the local `task` of each invocation
    result,       \* the value add_task returned to the dispatcher
    acquired,     \* history: per registry, the invocations in the order they gained both mutexes
    preceded,     \* history: per invocation, the invocations whose window had ended when its own began
    appended_at,  \* history: per invocation, the index at which it pushed its task (0 = none)
    \* one invocation on a registry of any size, the Vec reduced to its length
    \* and every usize kept at its full width (see the usize section)
    x_build,      \* the build profile: overflow-checks "on" or "off"
    x_pc,         \* position of the invocation
    x_next_id,    \* *next_id, a usize
    x_len,        \* tasks.len(), a usize
    x_task_id,    \* task.id of the local `task`, a usize
    x_result      \* what the invocation handed back: "none", "success" or "panic"

xvars == <<x_build, x_pc, x_next_id, x_len, x_task_id, x_result>>

pvars == <<tasks, next_id, tasks_lock, next_id_lock, pc, self, title, description,
           task, result, acquired, preceded, appended_at>>

vars == <<pvars, xvars>>

\* the sessions whose registry has been constructed
created == DOMAIN tasks

\* ---- pure parts of the code ----

\* Task { id: *next_id, title: title.clone(), description, completed: false }
NewTaskSwapped(id, t, d) ==
    [id |-> id, title |-> d, description |-> t, completed |-> FALSE]
NewTask(id, t, d) ==
    [id |-> id, title |-> t, description |-> d, completed |-> FALSE]

\* *next_id += 1
IncrNoop(n) == n
Incr(n) == n + 1

\* tasks.push(task.clone())
PushFront(v, t) == <<t>> \o v
PushDedup(v, t) ==
    IF \E i \in 1..Len(v) : v[i].title = t.title /\ v[i].description = t.description
    THEN v ELSE Append(v, t)
Push(v, t) == Append(v, t)

\* format!("Task '{}' added successfully with ID {}", title, task.id)
Format(t, id) ==
    "Task '" \o t \o "' added successfully with ID " \o ToString(id)

\* serde_json::json!({"success": true, "task": task, "message": ...})
ResponseNextId(t, tk, n) ==
    [success |-> TRUE, task |-> tk, message |-> Format(t, n)]
Response(t, tk, n) ==
    [success |-> TRUE, task |-> tk, message |-> Format(t, tk.id)]

\* Ok(CallToolResult::success(vec![Content::text(..)]))
Failure(r) == [is_error |-> TRUE, content |-> r]
Success(r) == [is_error |-> FALSE, content |-> r]

\* tokio::sync::Mutex: lock().await completes only while no guard is alive
CanAcquireAlways(holder) == TRUE
CanAcquire(holder) == holder = NoCall

\* ---- usize at its full width ----
\* `id: usize` and `next_id: Arc<Mutex<usize>>` are 64 bits wide; a usize is
\* kept here as UsizeLimbs limbs of LimbBits bits each, least significant first.
UsizeLimbs == 4
LimbBase == 65536
UsizeZero == [i \in 1..UsizeLimbs |-> 0]
UsizeOne == [i \in 1..UsizeLimbs |-> IF i = 1 THEN 1 ELSE 0]
UsizeMAX == [i \in 1..UsizeLimbs |-> LimbBase - 1]

\* v + 1 modulo 2^64: the carry runs through the limbs that are all ones
WrappingAddOne(v) ==
    [i \in 1..UsizeLimbs |->
        IF \A j \in 1..(i - 1) : v[j] = LimbBase - 1
        THEN (v[i] + 1) % LimbBase
        ELSE v[i]]

\* `*next_id += 1` on a usize: with overflow-checks on the addition panics at
\* usize::MAX, with overflow-checks off it wraps
AddAssignOne(v, build) ==
    IF build = "on" /\ v = UsizeMAX
    THEN [panic |-> TRUE, value |-> v]
    ELSE [panic |-> FALSE, value |-> WrappingAddOne(v)]

\* TaskManager::new(): an empty Vec and the counter at 1
TaskManager_new_zero == [tasks |-> <<>>, next_id |-> 0]
TaskManager_new == [tasks |-> <<>>, next_id |-> 1]

\* ---- the program ----

InitProgram ==
    /\ tasks = <<>>
    /\ next_id = <<>>
    /\ tasks_lock = <<>>
    /\ next_id_lock = <<>>
    /\ acquired = <<>>
    /\ pc = [c \in Calls |-> "idle"]
    /\ self = [c \in Calls |-> 1]
    /\ title = [c \in Calls |-> ""]
    /\ description = [c \in Calls |-> ""]
    /\ task = [c \in Calls |-> NoTask]
    /\ result = [c \in Calls |-> NoResult]
    /\ preceded = [c \in Calls |-> {}]
    /\ appended_at = [c \in Calls |-> 0]

Init ==
    /\ InitProgram
    /\ x_build = "off"
    /\ x_pc = "done"
    /\ x_next_id = UsizeOne
    /\ x_len = UsizeZero
    /\ x_task_id = UsizeZero
    /\ x_result = "none"

\* TaskManager::new(), called by the service factory when session s opens
\* (sessions are numbered in the order they open)
NewSession(s) ==
    /\ s = Len(tasks) + 1
    /\ s \in Sessions
    /\ tasks' = Append(tasks, TaskManager_new.tasks)
    /\ next_id' = Append(next_id, TaskManager_new.next_id)
    /\ tasks_lock' = Append(tasks_lock, NoCall)
    /\ next_id_lock' = Append(next_id_lock, NoCall)
    /\ acquired' = Append(acquired, <<>>)
    /\ UNCHANGED <<pc, self, title, description, task, result, preceded, appended_at,
                   xvars>>

\* the dispatcher decodes a request of session s and calls add_task
\* (invocations are numbered in the order they start)
Call(c, s, req) ==
    /\ pc[c] = "idle"
    /\ \A b \in Calls : b < c => pc[b] # "idle"
    /\ s \in created
    /\ pc' = [pc EXCEPT ![c] = "lock_tasks"]
    /\ self' = [self EXCEPT ![c] = s]
    /\ title' = [title EXCEPT ![c] = req.title]
    /\ description' = [description EXCEPT ![c] = req.description]
    /\ UNCHANGED <<tasks, next_id, tasks_lock, next_id_lock, task, result,
                   acquired, preceded, appended_at,
                   xvars>>

\* let mut tasks = self.tasks.lock().await;
LockTasks(c) ==
    /\ pc[c] = "lock_tasks"
    /\ CanAcquire(tasks_lock[self[c]])
    /\ tasks_lock' = [tasks_lock EXCEPT ![self[c]] = c]
    /\ pc' = [pc EXCEPT ![c] = "lock_next_id"]
    /\ UNCHANGED <<tasks, next_id, next_id_lock, self, title, description, task,
                   result, acquired, preceded, appended_at,
                   xvars>>

\* let mut next_id = self.next_id.lock().await;
LockNextId(c) ==
    /\ pc[c] = "lock_next_id"
    /\ CanAcquire(next_id_lock[self[c]])
    /\ next_id_lock' = [next_id_lock EXCEPT ![self[c]] = c]
    /\ pc' = [pc EXCEPT ![c] = "construct"]
    /\ acquired' = [acquired EXCEPT ![self[c]] = Append(@, c)]
    /\ preceded' = [preceded EXCEPT ![c] =
                      {a \in Calls : self[a] = self[c] /\ pc[a] \in {"drop_tasks", "done"}}]
    /\ UNCHANGED <<tasks, next_id, tasks_lock, self, title, description, task,
                   result, appended_at,
                   xvars>>

\* let task = Task { id: *next_id, .. };
Construct(c) ==
    /\ pc[c] = "construct"
    /\ task' = [task EXCEPT ![c] = NewTask(next_id[self[c]], title[c], description[c])]
    /\ pc' = [pc EXCEPT ![c] = "incr"]
    /\ UNCHANGED <<tasks, next_id, tasks_lock, next_id_lock, self, title, description,
                   result, acquired, preceded, appended_at,
                   xvars>>

\* *next_id += 1;
IncrNextId(c) ==
    /\ pc[c] = "incr"
    /\ next_id' = [next_id EXCEPT ![self[c]] = Incr(@)]
    /\ pc' = [pc EXCEPT ![c] = "push"]
    /\ UNCHANGED <<tasks, tasks_lock, next_id_lock, self, title, description, task,
                   result, acquired, preceded, appended_at,
                   xvars>>

\* tasks.push(task.clone());
PushTask(c) ==
    /\ pc[c] = "push"
    /\ tasks' = [tasks EXCEPT ![self[c]] = Push(@, task[c])]
    /\ appended_at' = [appended_at EXCEPT ![c] = Len(tasks'[self[c]])]
    /\ pc' = [pc EXCEPT ![c] = "respond"]
    /\ UNCHANGED <<next_id, tasks_lock, next_id_lock, self, title, description, task,
                   result, acquired, preceded,
                   xvars>>

\* let response = json!({..}); Ok(CallToolResult::success(..))
Respond(c) ==
    /\ pc[c] = "respond"
    /\ result' = [result EXCEPT ![c] =
                    Success(Response(title[c], task[c], next_id[self[c]]))]
    /\ pc' = [pc EXCEPT ![c] = "drop_next_id"]
    /\ UNCHANGED <<tasks, next_id, tasks_lock, next_id_lock, self, title, description,
                   task, acquired, preceded, appended_at,
                   xvars>>

\* end of scope: the next_id guard (declared last) is dropped first
DropNextId(c) ==
    /\ pc[c] = "drop_next_id"
    /\ next_id_lock' = [next_id_lock EXCEPT ![self[c]] = NoCall]
    /\ pc' = [pc EXCEPT ![c] = "drop_tasks"]
    /\ UNCHANGED <<tasks, next_id, tasks_lock, self, title, description, task, result,
                   acquired, preceded, appended_at,
                   xvars>>

\* the tasks guard is leaked: the mutex stays locked after the return
DropTasksLeak(c) ==
    /\ pc[c] = "drop_tasks"
    /\ pc' = [pc EXCEPT ![c] = "done"]
    /\ UNCHANGED <<tasks, next_id, tasks_lock, next_id_lock, self, title, description,
                   task, result, acquired, preceded, appended_at, xvars>>

\* end of scope: the tasks guard is dropped, the result reaches the dispatcher
DropTasks(c) ==
    /\ pc[c] = "drop_tasks"
    /\ tasks_lock' = [tasks_lock EXCEPT ![self[c]] = NoCall]
    /\ pc' = [pc EXCEPT ![c] = "done"]
    /\ UNCHANGED <<tasks, next_id, next_id_lock, self, title, description, task, result,
                   acquired, preceded, appended_at,
                   xvars>>

\* an await point between the increment and the push: the future can also be
\* dropped there, and both guards with it
CancelMidMutation(c) ==
    /\ pc[c] \in {"lock_tasks", "lock_next_id", "push"}
    /\ tasks_lock' = [tasks_lock EXCEPT ![self[c]] = IF @ = c THEN NoCall ELSE @]
    /\ next_id_lock' = [next_id_lock EXCEPT ![self[c]] = IF @ = c THEN NoCall ELSE @]
    /\ pc' = [pc EXCEPT ![c] = "cancelled"]
    /\ UNCHANGED <<tasks, next_id, self, title, description, task, result,
                   acquired, preceded, appended_at, xvars>>

\* the dispatcher drops the future at one of its two await points; a guard
\* the future holds is dropped with it
Cancel(c) ==
    /\ pc[c] \in {"lock_tasks", "lock_next_id"}
    /\ tasks_lock' = [tasks_lock EXCEPT ![self[c]] = IF @ = c THEN NoCall ELSE @]
    /\ pc' = [pc EXCEPT ![c] = "cancelled"]
    /\ UNCHANGED <<tasks, next_id, next_id_lock, self, title, description, task, result,
                   acquired, preceded, appended_at,
                   xvars>>

add_task(c) ==
    \/ LockTasks(c)
    \/ LockNextId(c)
    \/ Construct(c)
    \/ IncrNextId(c)
    \/ PushTask(c)
    \/ Respond(c)
    \/ DropNextId(c)
    \/ DropTasks(c)

Next ==
    \/ \E s \in Sessions : NewSession(s)
    \/ \E c \in Calls, s \in Sessions, req \in Requests : Call(c, s, req)
    \/ \E c \in Calls : add_task(c)
    \/ \E c \in Calls : Cancel(c)

Spec == Init /\ [][Next]_vars

\* The runtime keeps polling a future that can make progress, and
\* tokio::sync::Mutex hands the lock to its waiters in FIFO order, so an
\* invocation that can step again and again does step. The dispatcher is
\* under no obligation to open sessions, start calls or cancel them.
FairSpec == Spec /\ \A c \in Calls : SF_vars(add_task(c))

\* ---- add_task on a registry of any size ----
\* The registry is the pair (tasks.len(), *next_id) with every usize at its
\* full width, so that the counter may stand anywhere up to usize::MAX; one
\* invocation holds both mutexes and runs lines 49-67.

MaxLimbValues == 4

\* the limb values tried: the MaxLimbValues values nearest to a carry
LimbSamples ==
    {l \in 0..(LimbBase - 1) :
        \/ l < MaxLimbValues \div 2
        \/ l >= LimbBase - (MaxLimbValues - MaxLimbValues \div 2)}

UsizeSamples == [1..UsizeLimbs -> LimbSamples]

\* the registry in agreement (next_id = len + 1), the invocation holding both
\* mutexes, the build with overflow-checks on or off
ExhaustInit ==
    /\ InitProgram
    /\ x_build \in {"on", "off"}
    /\ x_pc = "construct"
    /\ x_len \in UsizeSamples \ {UsizeMAX}
    /\ x_next_id = WrappingAddOne(x_len)
    /\ x_task_id = UsizeZero
    /\ x_result = "none"

\* let task = Task { id: *next_id, .. };
ExhaustConstruct ==
    /\ x_pc = "construct"
    /\ x_task_id' = x_next_id
    /\ x_pc' = "incr"
    /\ UNCHANGED <<x_build, x_next_id, x_len, x_result>>
    /\ UNCHANGED pvars

\* *next_id += 1; a panic unwinds out of add_task, dropping both guards
ExhaustIncr ==
    /\ x_pc = "incr"
    /\ LET r == AddAssignOne(x_next_id, x_build)
       IN  IF r.panic
           THEN /\ x_pc' = "panicked"
                /\ x_result' = "panic"
                /\ UNCHANGED x_next_id
           ELSE /\ x_pc' = "push"
                /\ x_next_id' = r.value
                /\ UNCHANGED x_result
    /\ UNCHANGED <<x_build, x_len, x_task_id>>
    /\ UNCHANGED pvars

\* tasks.push(task.clone());
ExhaustPush ==
    /\ x_pc = "push"
    /\ x_len' = WrappingAddOne(x_len)
    /\ x_pc' = "respond"
    /\ UNCHANGED <<x_build, x_next_id, x_task_id, x_result>>
    /\ UNCHANGED pvars

\* Ok(CallToolResult::success(..)), then both guards are dropped
ExhaustRespond ==
    /\ x_pc = "respond"
    /\ x_result' = "success"
    /\ x_pc' = "done"
    /\ UNCHANGED <<x_build, x_next_id, x_len, x_task_id>>
    /\ UNCHANGED pvars

ExhaustNext ==
    \/ ExhaustConstruct
    \/ ExhaustIncr
    \/ ExhaustPush
    \/ ExhaustRespond

ExhaustSpec == ExhaustInit /\ [][ExhaustNext]_vars

\* ---- vocabulary of the properties ----

\* the invocations that run on registry s
CallsOf(s) == {c \in Calls : pc[c] # "idle" /\ self[c] = s}

\* c has returned a result to the dispatcher
Returned(c) == pc[c] = "done"

\* the Task in the payload returned to c
ReturnedTask(c) == result[c].content.task

\* c has passed tasks.push
Pushed(c) == pc[c] \in {"respond", "drop_next_id", "drop_tasks", "done"}

\* no invocation on registry s is in flight
Quiescent(s) == \A c \in CallsOf(s) : pc[c] \in {"done", "cancelled"}

\* ---- C1 ----
\* C1 (uniqueness): the tasks returned by the invocations on one registry
\* carry pairwise distinct ids, and no two tasks stored in one collection
\* share an id.
Uniqueness ==
    /\ \A a, b \in Calls :
          (a # b /\ Returned(a) /\ Returned(b) /\ self[a] = self[b])
             => ReturnedTask(a).id # ReturnedTask(b).id
    /\ \A s \in created : \A i, j \in 1..Len(tasks[s]) :
          i # j => tasks[s][i].id # tasks[s][j].id

\* every invocation has returned, all on the same registry
UniquenessWitness ==
    /\ \A c \in Calls : Returned(c) /\ self[c] = 1
    /\ Len(tasks[1]) = MaxCalls

\* ---- C2 ----
\* C2 (collection/counter agreement): whenever both mutexes of a registry are
\* free, and whenever an invocation has just gained the tasks mutex or both
\* mutexes, next_id equals the length of tasks plus one; the two disagree only
\* while one invocation, holding both mutexes, is between the increment and
\* the push.
CounterAgreement ==
    \A s \in created :
        /\ (tasks_lock[s] = NoCall /\ next_id_lock[s] = NoCall)
              => next_id[s] = Len(tasks[s]) + 1
        /\ \A c \in CallsOf(s) :
              pc[c] \in {"lock_next_id", "construct"} => next_id[s] = Len(tasks[s]) + 1
        /\ next_id[s] # Len(tasks[s]) + 1
              => \E c \in CallsOf(s) :
                    /\ pc[c] = "push"
                    /\ tasks_lock[s] = c
                    /\ next_id_lock[s] = c
                    /\ \A b \in CallsOf(s) \ {c} :
                          pc[b] \in {"lock_tasks", "done", "cancelled"}

\* an invocation gains exclusive access to a registry on which another
\* invocation has already stored a task and returned
CounterAgreementWitness ==
    \E c, b \in Calls :
        /\ pc[c] = "construct" /\ Returned(b) /\ self[b] = self[c]
        /\ Len(tasks[self[c]]) >= 1

\* ---- C3 ----
\* C3 (monotonicity): if A had released exclusive access before B gained it,
\* A's returned id is smaller than B's; ids are assigned and tasks appended in
\* the order in which the invocations gained exclusive access.
Monotonicity ==
    /\ \A b \in Calls : \A a \in preceded[b] :
          (Returned(a) /\ Returned(b)) => ReturnedTask(a).id < ReturnedTask(b).id
    /\ \A s \in created : \A i, j \in 1..Len(acquired[s]) :
          i < j =>
            LET a == acquired[s][i]
                b == acquired[s][j]
            IN  /\ pc[b] # "construct"
                      => pc[a] # "construct" /\ task[a].id < task[b].id
                /\ Pushed(b)
                      => /\ Pushed(a)
                         /\ appended_at[a] < appended_at[b]
                         /\ tasks[s][appended_at[a]] = task[a]
                         /\ tasks[s][appended_at[b]] = task[b]

\* the invocation that started second went through a registry before the
\* one that started first, and both have returned
MonotonicityWitness ==
    \E a, b \in Calls :
        /\ a > b /\ a \in preceded[b]
        /\ Returned(a) /\ Returned(b)

\* ---- C4 ----
\* C4 (append fidelity): the length of a collection is the number of
\* invocations on it that have passed their push (each adds exactly one, none
\* is lost), and while an invocation that has built its result still holds
\* the tasks mutex the last element of the collection is the returned Task.
AppendFidelity ==
    /\ \A s \in created :
          Len(tasks[s]) = Cardinality({c \in CallsOf(s) : Pushed(c)})
    /\ \A c \in Calls :
          pc[c] \in {"drop_next_id", "drop_tasks"}
             => /\ Len(tasks[self[c]]) >= 1
                /\ tasks[self[c]][Len(tasks[self[c]])] = ReturnedTask(c)

\* an invocation is about to release a registry that held a task before it
AppendFidelityWitness ==
    \E c \in Calls :
        /\ pc[c] = "drop_next_id"
        /\ Len(tasks[self[c]]) >= 2

\* ---- C5 ----
\* C5 (dense ids from 1): once the N invocations that ran to completion on a
\* registry have returned and none is in flight, its collection has N tasks,
\* the task at position i has id i, and the returned ids are exactly 1..N.
DenseIds ==
    \A s \in created :
        Quiescent(s) =>
            LET done == {c \in CallsOf(s) : Returned(c)}
                N == Cardinality(done)
            IN  /\ Len(tasks[s]) = N
                /\ \A i \in 1..N : tasks[s][i].id = i
                /\ {ReturnedTask(c).id : c \in done} = 1..N

\* a registry at rest after every invocation ran on it
DenseIdsWitness ==
    /\ Quiescent(1)
    /\ Cardinality({c \in CallsOf(1) : Returned(c)}) = MaxCalls

\* ---- C6 ----
\* C6 (single process-wide registry): no second registry is ever constructed,
\* and all invocations the dispatcher has started run on the same registry.
SingleRegistry ==
    /\ Cardinality(created) <= 1
    /\ \A a, b \in Calls :
          (pc[a] # "idle" /\ pc[b] # "idle") => self[a] = self[b]

\* ---- C7 ----
\* C7 (counter dominance): next_id is greater than the id of every stored
\* task and of every task an invocation has built a result for or returned,
\* and every such id is at least 1.
CounterDominance ==
    \A s \in created :
        /\ \A i \in 1..Len(tasks[s]) :
              1 <= tasks[s][i].id /\ tasks[s][i].id < next_id[s]
        /\ \A c \in CallsOf(s) :
              pc[c] \in {"drop_next_id", "drop_tasks", "done"}
                 => 1 <= ReturnedTask(c).id /\ ReturnedTask(c).id < next_id[s]
        /\ \A c \in CallsOf(s) :
              pc[c] \in {"push", "respond"}
                 => 1 <= task[c].id /\ task[c].id < next_id[s]

\* an invocation has returned while a later one holds a task not yet pushed
CounterDominanceWitness ==
    \E a, b \in Calls :
        /\ Returned(a) /\ pc[b] = "push" /\ self[a] = self[b]
        /\ Len(tasks[self[a]]) >= 1

\* ---- C8 ----
\* C8 (field fidelity): every invocation that returns, returns success; the
\* returned Task and the Task it stored carry the invocation's own title and
\* description, the empty string included, and completed = false.
FieldFidelity ==
    \A c \in Calls :
        Returned(c) =>
            LET stored == tasks[self[c]][appended_at[c]]
            IN  /\ ~ result[c].is_error
                /\ ReturnedTask(c).title = title[c]
                /\ ReturnedTask(c).description = description[c]
                /\ ReturnedTask(c).completed = FALSE
                /\ appended_at[c] \in 1..Len(tasks[self[c]])
                /\ stored.title = title[c]
                /\ stored.description = description[c]
                /\ stored.completed = FALSE

\* two invocations on one registry, one with empty strings and one without,
\* have returned
FieldFidelityWitness ==
    \E a, b \in Calls :
        /\ Returned(a) /\ Returned(b) /\ self[a] = self[b]
        /\ title[a] = "" /\ description[a] = ""
        /\ title[b] = "Buy milk" /\ description[b] = "2% organic"

\* ---- C9 ----
\* C9 (response shaping): the payload an invocation returns has success =
\* true, a task with the four fields, and the message "Task '<title>' added
\* successfully with ID <id>" with the invocation's title and the id that is
\* both in the payload's task and in the task the invocation appended.
ResponseShaping ==
    \A c \in Calls :
        Returned(c) =>
            LET r == result[c].content
            IN  /\ ~ result[c].is_error
                /\ DOMAIN r = {"success", "task", "message"}
                /\ r.success = TRUE
                /\ DOMAIN r.task = {"id", "title", "description", "completed"}
                /\ r.task.id = tasks[self[c]][appended_at[c]].id
                /\ r.message = "Task '" \o title[c] \o "' added successfully with ID "
                                  \o ToString(tasks[self[c]][appended_at[c]].id)
                /\ (title[c] = "Buy milk" /\ r.task.id = 1)
                      => r.message = "Task 'Buy milk' added successfully with ID 1"
                /\ (title[c] = "" /\ r.task.id = 2)
                      => r.message = "Task '' added successfully with ID 2"

\* the first invocation on a registry returned for "Buy milk", a second one
\* returned for the empty title
ResponseShapingWitness ==
    \E a, b \in Calls :
        /\ Returned(a) /\ title[a] = "Buy milk" /\ ReturnedTask(a).id = 1
        /\ Returned(b) /\ title[b] = "" /\ ReturnedTask(b).id = 2
        /\ self[a] = self[b]

\* ---- C10 ----
\* C10 (no deduplication): two invocations on one registry with the same
\* title and description return tasks with distinct ids, stored at two
\* distinct positions of the collection.
NoDeduplication ==
    \A a, b \in Calls :
        (/\ a # b /\ Returned(a) /\ Returned(b) /\ self[a] = self[b]
         /\ title[a] = title[b] /\ description[a] = description[b])
        => /\ ReturnedTask(a).id # ReturnedTask(b).id
           /\ appended_at[a] # appended_at[b]
           /\ {appended_at[a], appended_at[b]} \subseteq 1..Len(tasks[self[a]])
           /\ tasks[self[a]][appended_at[a]] = ReturnedTask(a)
           /\ tasks[self[a]][appended_at[b]] = ReturnedTask(b)

\* two invocations with the same payload have returned on one registry
NoDeduplicationWitness ==
    \E a, b \in Calls :
        /\ a # b /\ Returned(a) /\ Returned(b) /\ self[a] = self[b]
        /\ title[a] = title[b] /\ description[a] = description[b]
        /\ title[a] = "Buy milk"

\* ---- C11 ----
\* C11 (no silent wraparound): an invocation that found the counter at
\* usize::MAX leaves the counter at usize::MAX (it neither wraps to 0 nor
\* moves back to an issued id), ends as a failure of that request, and
\* leaves next_id = len + 1.
NoSilentWraparound ==
    (x_task_id = UsizeMAX /\ x_pc \notin {"construct", "incr"})
        => /\ x_next_id = UsizeMAX
           /\ x_result # "success"
           /\ x_next_id = WrappingAddOne(x_len)

\* ---- C12 ----
\* C12 (no failure path): an invocation is only ever waiting for a mutex,
\* running its critical section, cancelled by the dispatcher or done; every
\* result it has built or returned is a success, whatever the payload and
\* whatever the other invocations do.
NoFailurePath ==
    \A c \in Calls :
        /\ pc[c] \in {"idle", "lock_tasks", "lock_next_id", "construct", "incr", "push",
                       "respond", "drop_next_id", "drop_tasks", "done", "cancelled"}
        /\ pc[c] \in {"drop_next_id", "drop_tasks", "done"}
              => /\ result[c] # NoResult
                 /\ result[c].is_error = FALSE
                 /\ result[c].content.success = TRUE
        /\ pc[c] \notin {"drop_next_id", "drop_tasks", "done"} => result[c] = NoResult

\* both payloads were served on one registry, the later invocation first
NoFailurePathWitness ==
    \E a, b \in Calls :
        /\ a < b /\ b \in preceded[a] /\ self[a] = self[b]
        /\ Returned(a) /\ Returned(b)
        /\ title[a] # title[b]

\* ---- C13 ----
\* the atomic model: one transition (collection, counter) ->
\* (collection with the new task appended, counter + 1) per call
AtomicCreate(v, n, t, d) ==
    [collection |-> Append(v, [id |-> n, title |-> t, description |-> d,
                               completed |-> FALSE]),
     counter |-> n + 1]

\* (v, n) is a state of the atomic model: the empty registry with the counter
\* at 1, or the successor of such a state by one atomic transition
RECURSIVE AtomicReachable(_, _)
AtomicReachable(v, n) ==
    IF v = <<>>
    THEN n = 1
    ELSE /\ n > 1
         /\ AtomicReachable(SubSeq(v, 1, Len(v) - 1), n - 1)
         /\ \E req \in Requests :
               AtomicCreate(SubSeq(v, 1, Len(v) - 1), n - 1, req.title, req.description)
                  = [collection |-> v, counter |-> n]

\* the atomic state a registry stands for: the push is the point at which the
\* call takes effect, so the increment of an invocation that has not pushed
\* yet is not counted
AbsCollection(s) == tasks[s]
AbsCounter(s) ==
    IF \E c \in CallsOf(s) : pc[c] = "push" THEN next_id[s] - 1 ELSE next_id[s]

\* C13 (atomic-step refinement): in every state each registry stands for a
\* state of the atomic model, which is the pair (tasks, next_id) itself
\* whenever no invocation is between its increment and its push; every step
\* either leaves that atomic state alone or is the one atomic transition of
\* an invocation that holds both mutexes, appending the task built from its
\* own title and description, which is the task it returns.
AtomicRefinement ==
    /\ [](\A s \in created :
            /\ AtomicReachable(AbsCollection(s), AbsCounter(s))
            /\ (tasks_lock[s] = NoCall /\ next_id_lock[s] = NoCall)
                  => AtomicReachable(tasks[s], next_id[s]))
    /\ [](\A c \in Calls :
            Returned(c) => ReturnedTask(c) = AbsCollection(self[c])[appended_at[c]])
    /\ [][\A s \in created :
            \/ /\ AbsCollection(s)' = AbsCollection(s)
               /\ AbsCounter(s)' = AbsCounter(s)
            \/ \E c \in CallsOf(s) :
                  /\ tasks_lock[s] = c /\ next_id_lock[s] = c
                  /\ [collection |-> AbsCollection(s)', counter |-> AbsCounter(s)']
                        = AtomicCreate(AbsCollection(s), AbsCounter(s),
                                       title[c], description[c])
                  /\ appended_at'[c] = Len(AbsCollection(s)')
                  /\ \A b \in Calls \ {c} : appended_at'[b] = appended_at[b]
       ]_vars

\* an invocation has advanced the counter of a registry that already holds a
\* task and has not pushed yet
AtomicRefinementWitness ==
    \E c \in Calls :
        /\ pc[c] = "push"
        /\ Len(tasks[self[c]]) >= 1
        /\ next_id[self[c]] = Len(tasks[self[c]]) + 2

\* ---- C14 ----
\* C14 (append-only, immutable tasks): every step leaves each collection a
\* prefix of what it becomes (the tasks already stored keep their four fields
\* and their positions, none is removed or moved), and every stored task has
\* completed = false.
AppendOnly ==
    /\ [](\A s \in created : \A i \in 1..Len(tasks[s]) :
            tasks[s][i].completed = FALSE)
    /\ [][\A s \in created :
            /\ Len(tasks'[s]) >= Len(tasks[s])
            /\ \A i \in 1..Len(tasks[s]) : tasks'[s][i] = tasks[s][i]
       ]_vars

\* a second, different task has just been pushed behind a stored one
AppendOnlyWitness ==
    \E c \in Calls :
        /\ pc[c] = "respond"
        /\ Len(tasks[self[c]]) = 2
        /\ tasks[self[c]][1].title # tasks[self[c]][2].title

\* ---- C15 ----
\* c has started and has neither returned nor been cancelled
InFlight(c) == pc[c] \notin {"idle", "done", "cancelled"}

\* C15 (deadlock freedom and completion): whenever invocations are in flight
\* on a registry, one of them can take its next step; an invocation that has
\* returned has pushed its task and holds no mutex; and under fair lock
\* handoff every invocation that starts and is not dropped by the dispatcher
\* gains both mutexes and returns.
DeadlockFreedom ==
    /\ [](\A s \in created :
            (\E c \in CallsOf(s) : InFlight(c))
               => \E c \in CallsOf(s) : InFlight(c) /\ ENABLED add_task(c))
    /\ [](\A c \in Calls :
            Returned(c) => /\ appended_at[c] >= 1
                           /\ tasks_lock[self[c]] # c
                           /\ next_id_lock[self[c]] # c)
    /\ \A c \in Calls :
          (pc[c] = "lock_tasks") ~> (Returned(c) \/ pc[c] = "cancelled")
    /\ \A c \in Calls :
          (pc[c] = "construct") ~> Returned(c)

\* an invocation waits for the tasks mutex while another one holds both
DeadlockFreedomWitness ==
    \E a, b \in Calls :
        /\ self[a] = self[b]
        /\ pc[b] = "lock_tasks"
        /\ pc[a] = "push"
        /\ tasks_lock[self[a]] = a /\ next_id_lock[self[a]] = a

\* ---- C16 ----
\* C16 (no interruption inside the mutation): an invocation that holds both
\* mutexes cannot be cancelled before it has returned; the step that cancels
\* an invocation changes no collection and no counter; a cancelled
\* invocation has read no id, pushed no task, built no result and holds no
\* mutex, and the registry it ran on is as consistent as without it.
NoInterruption ==
    /\ [](\A c \in Calls :
            pc[c] \in {"construct", "incr", "push", "respond", "drop_next_id", "drop_tasks"}
               => ~ ENABLED Cancel(c))
    /\ [](\A c \in Calls :
            pc[c] = "cancelled"
               => /\ task[c] = NoTask
                  /\ appended_at[c] = 0
                  /\ result[c] = NoResult
                  /\ tasks_lock[self[c]] # c
                  /\ next_id_lock[self[c]] # c
                  /\ \A i \in 1..Len(acquired[self[c]]) : acquired[self[c]][i] # c
                  /\ Quiescent(self[c])
                        => next_id[self[c]] = Len(tasks[self[c]]) + 1)
    /\ [][\A c \in Calls :
            (pc[c] # "cancelled" /\ pc'[c] = "cancelled")
               => /\ pc[c] \in {"lock_tasks", "lock_next_id"}
                  /\ tasks' = tasks
                  /\ next_id' = next_id
                  /\ next_id_lock' = next_id_lock
       ]_vars

\* an invocation was cancelled and another one is in the middle of its
\* mutation of the same registry
NoInterruptionWitness ==
    \E c, b \in Calls :
        /\ pc[c] = "cancelled" /\ pc[b] = "push" /\ self[b] = self[c]
        /\ c < b

\* ---- C17 ----
\* c is between acquiring the tasks mutex and releasing it
HoldsTasks(c) ==
    pc[c] \in {"lock_next_id", "construct", "incr", "push", "respond",
               "drop_next_id", "drop_tasks"}

\* C17 (nested-lock invariant): the next_id mutex is held only by the holder
\* of the tasks mutex; an invocation that has acquired the tasks mutex finds
\* the next_id mutex free; and at most one invocation per registry is between
\* acquiring the tasks mutex and releasing it, that one being its holder.
NestedLocks ==
    \A s \in created :
        /\ next_id_lock[s] # NoCall => tasks_lock[s] = next_id_lock[s]
        /\ \A c \in CallsOf(s) :
              pc[c] = "lock_next_id" => next_id_lock[s] = NoCall
        /\ Cardinality({c \in CallsOf(s) : HoldsTasks(c)}) <= 1
        /\ \A c \in CallsOf(s) : HoldsTasks(c) <=> tasks_lock[s] = c
        /\ \A c \in CallsOf(s) :
              next_id_lock[s] = c
                 <=> pc[c] \in {"construct", "incr", "push", "respond", "drop_next_id"}

\* an invocation has just acquired the tasks mutex of a registry that was
\* used before, while another invocation waits for it
NestedLocksWitness ==
    \E a, b \in Calls :
        /\ self[a] = self[b]
        /\ pc[a] = "lock_next_id" /\ pc[b] = "lock_tasks"
        /\ tasks_lock[self[a]] = a

====
